---- MODULE Spec2Model ----
(***************************************************************************)
(* paste_image_auto (src/image_fit_paste.py): fit a content image into a   *)
(* rectangle of a canvas copy, paste it, paste an optional overlay on top  *)
(* and return the PNG bytes.                                               *)
(*                                                                         *)
(* One call is modelled.  Init draws the actual arguments and the files    *)
(* the paths name; the actions are the numbered sections of the function   *)
(* body, in program order.                                                 *)
(*                                                                         *)
(* Pixels carry one colour value c (the R, G, B bands are treated alike by *)
(* every operation used) and a fourth band a; both are 8-bit.  The fourth   *)
(* band is the alpha of an RGBA image, the padding byte 255 of an RGB      *)
(* image and the K band of a CMYK image, whose c is the C, M and Y value.  *)
(*                                                                         *)
(* scale is kept as an exact fraction <<numerator, denominator>>.  For     *)
(* region and content dimensions below 22 the IEEE double computation of   *)
(* the source (division, min, product, round) gives the same integers as   *)
(* the exact computation; the bounds used here stay below that.            *)
(***************************************************************************)
EXTENDS Integers, Sequences, FiniteSets, TLC

VARIABLES
    args,      \* the actual arguments of the call (never assigned by the body)
    fs,        \* the files that exist: path -> decoded image
    heap,      \* the image objects: id -> image (ids are 1..Len(heap))
    loc,       \* the local variables bound so far: name -> value
    pc,        \* the section of the body to run next
    raised,    \* the exception that ended the call, "" if none
    returned,  \* <<bytes>> once the call has returned, <<>> before
    stdout,    \* the lines printed
    trace      \* the effects performed so far, in order

vars == <<args, fs, heap, loc, pc, raised, returned, stdout, trace>>

Max(a, b) == IF a >= b THEN a ELSE b

(***************************************************************************)
(* Python values that the arguments and locals take.                       *)
(***************************************************************************)
None == [tag |-> "None"]
Obj(id) == [tag |-> "Image", id |-> id]
Str(s) == [tag |-> "str", s |-> s]

\* isinstance(v, Image.Image)
IsImage(v) == v.tag = "Image"

(***************************************************************************)
(* Images.                                                                 *)
(***************************************************************************)
Pixel(c, a) == [c |-> c, a |-> a]

Coords(w, h) == (0 .. (w - 1)) \X (0 .. (h - 1))

\* Alpha of pixel (x, y) under a named pattern.
AlphaAt(pattern, x, y) ==
    CASE pattern = "opaque" -> 255
      [] pattern = "clear" -> 0
      [] pattern = "half" -> 128
      [] pattern = "checker" -> IF (x + y) % 2 = 0 THEN 255 ELSE 0

\* An image of the given mode and size; colours count up from base so that
\* every pixel of an image, and every image of a call, is told apart.
MakeImage(mode, w, h, base, pattern) ==
    [mode |-> mode, size |-> <<w, h>>,
     px |-> [q \in Coords(w, h) |->
               Pixel(base + q[1] + 8 * q[2],
                     IF mode = "RGBA" THEN AlphaAt(pattern, q[1], q[2])
                     ELSE IF mode = "RGB" THEN 255 ELSE 0)]]

\* Image.getbands()
GetBands(im) ==
    IF im.mode = "RGBA" THEN {"R", "G", "B", "A"}
    ELSE IF im.mode = "RGB" THEN {"R", "G", "B"}
    ELSE {"C", "M", "Y", "K"}

\* Image.convert(mode) between RGB and RGBA: the colour is kept, a new alpha
\* band is opaque, a dropped one leaves the padding byte.
Convert(im, mode) ==
    IF im.mode = mode THEN im
    ELSE [im EXCEPT !.mode = mode,
                    !.px = [q \in DOMAIN im.px |-> Pixel(im.px[q].c, 255)]]

\* The library's 8-bit blend of in1 (destination) and in2 (source) under mask.
BLEND8(mask, in1, in2) ==
    LET tmp == in1 * (255 - mask) + in2 * mask + 128
    IN  ((tmp \div 256) + tmp) \div 256

\* Source pixel s (RGB or RGBA) as paste hands it to a destination of mode
\* dstmode: kept for RGBA, alpha dropped for RGB, inverted with K = 0 for
\* CMYK (im.convert(self.mode)).
PixelAs(dstmode, s) ==
    IF dstmode = "RGBA" THEN Pixel(s.c, s.a)
    ELSE IF dstmode = "RGB" THEN Pixel(s.c, 255)
    ELSE Pixel(255 - s.c, 0)

\* One destination pixel d after pasting source pixel s onto it; the mask is
\* the source's own alpha and blends every band of the destination.
PastePixel(dstmode, d, s, masked) ==
    LET in == PixelAs(dstmode, s)
    IN  IF masked
        THEN Pixel(BLEND8(s.a, d.c, in.c),
                   IF dstmode = "RGB" THEN 255 ELSE BLEND8(s.a, d.a, in.a))
        ELSE in

\* Image.paste(src, (ox, oy)[, src]) on dst: the box is clipped to dst; with
\* the mask the source's alpha band gates each pixel.
ImagePaste(dst, src, ox, oy, masked) ==
    [dst EXCEPT !.px =
        [q \in DOMAIN dst.px |->
            LET sq == <<q[1] - ox, q[2] - oy>>
            IN  IF sq \in DOMAIN src.px
                THEN PastePixel(dst.mode, dst.px[q], src.px[sq], masked)
                ELSE dst.px[q]]]

(***************************************************************************)
(* Image.resize((w, h), Image.LANCZOS) on 8-bit bands, as the library does *)
(* it: each band is resampled along x, then along y, with the Lanczos      *)
(* window of support 3 whose weights are normalised and held as 22-bit     *)
(* fixed-point integers; an RGBA image is resampled with premultiplied     *)
(* alpha.                                                                  *)
(***************************************************************************)
\* LanczosKernel[n][m][i] = <<xmin, weights>>: output sample i of m takes
\* the input samples xmin+1 .. xmin+Len(weights) of n with these weights
\* (in units of 2^-22).  Tabulated for 1 <= n, m <= 6.
LanczosKernel ==
    <<
        <<
           <<<<0, <<4194304>>>>>>,
           <<<<0, <<4194304>>>>, <<0, <<4194304>>>>>>,
           <<<<0, <<4194304>>>>, <<0, <<4194304>>>>, <<0, <<4194304>>>>>>,
           <<<<0, <<4194304>>>>, <<0, <<4194304>>>>, <<0, <<4194304>>>>, <<0, <<4194304>>>>>>,
           <<<<0, <<4194304>>>>, <<0, <<4194304>>>>, <<0, <<4194304>>>>, <<0, <<4194304>>>>, <<0, <<4194304>>>>>>,
           <<<<0, <<4194304>>>>, <<0, <<4194304>>>>, <<0, <<4194304>>>>, <<0, <<4194304>>>>, <<0, <<4194304>>>>, <<0, <<4194304>>>>>>
        >>,
        <<
           <<<<0, <<2097152, 2097152>>>>>>,
           <<<<0, <<4194304, 0>>>>, <<0, <<0, 4194304>>>>>>,
           <<<<0, <<4715023, -520719>>>>, <<0, <<2097152, 2097152>>>>, <<0, <<-520719, 4715023>>>>>>,
           <<<<0, <<4930311, -736007>>>>, <<0, <<3217574, 976730>>>>, <<0, <<976730, 3217574>>>>, <<0, <<-736007, 4930311>>>>>>,
           <<<<0, <<5044681, -850377>>>>, <<0, <<3828486, 365818>>>>, <<0, <<2097152, 2097152>>>>, <<0, <<365818, 3828486>>>>, <<0, <<-850377, 5044681>>>>>>,
           <<<<0, <<5114765, -920461>>>>, <<0, <<4194304, 0>>>>, <<0, <<2853566, 1340738>>>>, <<0, <<1340738, 2853566>>>>, <<0, <<0, 4194304>>>>, <<0, <<-920461, 5114765>>>>>>
        >>,
        <<
           <<<<0, <<1296896, 1600512, 1296896>>>>>>,
           <<<<0, <<2742406, 1754765, -302866>>>>, <<0, <<-302866, 1754765, 2742406>>>>>>,
           <<<<0, <<4194304, 0, 0>>>>, <<0, <<0, 4194304, 0>>>>, <<0, <<0, 0, 4194304>>>>>>,
           <<<<0, <<4492385, -392563, 94482>>>>, <<0, <<1740598, 3039405, -585699>>>>, <<0, <<-585699, 3039405, 1740598>>>>, <<0, <<94482, -392563, 4492385>>>>>>,
           <<<<0, <<4647556, -590540, 137288>>>>, <<0, <<2815995, 1808651, -430341>>>>, <<0, <<0, 4194304, 0>>>>, <<0, <<-430341, 1808651, 2815995>>>>, <<0, <<137288, -590540, 4647556>>>>>>,
           <<<<0, <<4742290, -707939, 159953>>>>, <<0, <<3417235, 1037340, -260271>>>>, <<0, <<1103050, 3633700, -542446>>>>, <<0, <<-542446, 3633700, 1103050>>>>, <<0, <<-260271, 1037340, 3417235>>>>, <<0, <<159953, -707939, 4742290>>>>>>
        >>,
        <<
           <<<<0, <<923235, 1173917, 1173917, 923235>>>>>>,
           <<<<0, <<1946964, 1946964, 591023, -290647>>>>, <<0, <<-290647, 591023, 1946964, 1946964>>>>>>,
           <<<<0, <<3177826, 1431249, -481605, 66835>>>>, <<0, <<-262144, 2359296, 2359296, -262144>>>>, <<0, <<66835, -481605, 1431249, 3177826>>>>>>,
           <<<<0, <<4194304, 0, 0, 0>>>>, <<0, <<0, 4194304, 0, 0>>>>, <<0, <<0, 0, 4194304, 0>>>>, <<1, <<0, 0, 4194304>>>>>>,
           <<<<0, <<4436907, -320472, 77869>>>>, <<0, <<1317665, 3313067, -558481, 122052>>>>, <<0, <<-599186, 2696338, 2696338, -599186>>>>, <<0, <<122052, -558481, 3313067, 1317665>>>>, <<1, <<77869, -320472, 4436907>>>>>>,
           <<<<0, <<4580609, -505874, 119569>>>>, <<0, <<2307380, 2307380, -512751, 92295>>>>, <<0, <<-453552, 4106837, 724688, -183670>>>>, <<0, <<-183670, 724688, 4106837, -453552>>>>, <<0, <<92295, -512751, 2307380, 2307380>>>>, <<1, <<119569, -505874, 4580609>>>>>>
        >>,
        <<
           <<<<0, <<712334, 900164, 969309, 900164, 712334>>>>>>,
           <<<<0, <<1484509, 1726245, 1068847, 164945, -250242>>>>, <<0, <<-250242, 164945, 1068847, 1726245, 1484509>>>>>>,
           <<<<0, <<2467317, 1952482, 0, -298379, 72884>>>>, <<0, <<-289771, 1159085, 2455677, 1159085, -289771>>>>, <<0, <<72884, -298379, 0, 1952482, 2467317>>>>>>,
           <<<<0, <<3393149, 1160536, -466878, 107498>>>>, <<0, <<-236772, 2819039, 2029708, -475203, 57531>>>>, <<0, <<57531, -475203, 2029708, 2819039, -236772>>>>, <<1, <<107498, -466878, 1160536, 3393149>>>>>>,
           <<<<0, <<4194304, 0, 0, 0>>>>, <<0, <<0, 4194304, 0, 0, 0>>>>, <<0, <<0, 0, 4194304, 0, 0>>>>, <<1, <<0, 0, 4194304, 0>>>>, <<2, <<0, 0, 4194304>>>>>>,
           <<<<0, <<4398818, -270663, 66149>>>>, <<0, <<1071733, 3530535, -527045, 119081>>>>, <<0, <<-501363, 2126719, 3071306, -626269, 123911>>>>, <<0, <<123911, -626269, 3071306, 2126719, -501363>>>>, <<1, <<119081, -527045, 3530535, 1071733>>>>, <<2, <<66149, -270663, 4398818>>>>>>
        >>,
        <<
           <<<<0, <<578237, 720100, 798815, 798815, 720100, 578237>>>>>>,
           <<<<0, <<1190213, 1468853, 1190213, 559217, 0, -214193>>>>, <<0, <<-214193, 0, 559217, 1190213, 1468853, 1190213>>>>>>,
           <<<<0, <<1986086, 1986086, 602899, -296487, -151269, 66989>>>>, <<0, <<-271223, 551525, 1816850, 1816850, 551525, -271223>>>>, <<0, <<66989, -151269, -296487, 602899, 1986086, 1986086>>>>>>,
           <<<<0, <<2777139, 1776990, -306702, -124202, 71080>>>>, <<0, <<-291365, 1688130, 2638266, 465546, -375140, 68868>>>>, <<0, <<68868, -375140, 465546, 2638266, 1688130, -291365>>>>, <<1, <<71080, -124202, -306702, 1776990, 2777139>>>>>>,
           <<<<0, <<3540430, 968833, -418355, 103396>>>>, <<0, <<-210854, 3089121, 1717652, -505809, 104193>>>>, <<0, <<52184, -466989, 2511956, 2511956, -466989, 52184>>>>, <<1, <<104193, -505809, 1717652, 3089121, -210854>>>>, <<2, <<103396, -418355, 968833, 3540430>>>>>>,
           <<<<0, <<4194304, 0, 0, 0>>>>, <<0, <<0, 4194304, 0, 0, 0>>>>, <<0, <<0, 0, 4194304, 0, 0, 0>>>>, <<1, <<0, 0, 4194304, 0, 0>>>>, <<2, <<0, 0, 4194304, 0>>>>, <<3, <<0, 0, 4194304>>>>>>
        >>
    >>

\* sum of line[xmin + i] * k[i] for i in 1 .. n
RECURSIVE Dot(_, _, _, _)
Dot(line, xmin, k, n) ==
    IF n = 0 THEN 0 ELSE Dot(line, xmin, k, n - 1) + line[xmin + n] * k[n]

\* the fixed-point sum v as an 8-bit value
Clip8(v) ==
    LET s == v \div 4194304
    IN  IF s < 0 THEN 0 ELSE IF s > 255 THEN 255 ELSE s

\* One line of samples resampled to m samples.
Resample1D(line, m) ==
    [i \in 1 .. m |->
        LET e == LanczosKernel[Len(line)][m][i]
        IN  Clip8(2097152 + Dot(line, e[1], e[2], Len(e[2])))]

\* One band f of a w x h image resampled to nw x nh: the horizontal pass,
\* then the vertical pass, each only when its size changes.
ResampleBand(f, w, h, nw, nh) ==
    LET hor == IF nw = w THEN f
               ELSE [q \in Coords(nw, h) |->
                        Resample1D([x \in 1 .. w |-> f[<<x - 1, q[2]>>]], nw)[q[1] + 1]]
    IN  IF nh = h THEN hor
        ELSE [q \in Coords(nw, nh) |->
                 Resample1D([y \in 1 .. h |-> hor[<<q[1], y - 1>>]], nh)[q[2] + 1]]

\* a * b / 255, rounded, as the library computes it
MULDIV255(a, b) ==
    LET tmp == a * b + 128
    IN  ((tmp \div 256) + tmp) \div 256

\* RGBA -> RGBa
Premultiply(p) == Pixel(MULDIV255(p.c, p.a), p.a)

\* RGBa -> RGBA
Unpremultiply(p) ==
    IF p.a = 255 \/ p.a = 0 THEN p
    ELSE LET c == (255 * p.c) \div p.a
         IN  Pixel(IF c > 255 THEN 255 ELSE c, p.a)

\* Image.resize((w, h), LANCZOS) of an RGB or RGBA image: a new image of the
\* same mode; a request for the image's own size is a copy.
ImageResize(im, w, h) ==
    IF im.size = <<w, h>> THEN im
    ELSE LET alpha == im.mode = "RGBA"
             cw == im.size[1]
             ch == im.size[2]
             src == [q \in DOMAIN im.px |->
                        IF alpha THEN Premultiply(im.px[q]) ELSE im.px[q]]
             c == ResampleBand([q \in DOMAIN src |-> src[q].c], cw, ch, w, h)
             a == ResampleBand([q \in DOMAIN src |-> src[q].a], cw, ch, w, h)
         IN  [mode |-> im.mode, size |-> <<w, h>>,
              px |-> [q \in Coords(w, h) |->
                        IF alpha THEN Unpremultiply(Pixel(c[q], a[q]))
                        ELSE Pixel(c[q], 255)]]

\* The modes, among those modelled, that the PNG encoder writes.
CanSavePNG(im) == im.mode \in {"RGB", "RGBA"}

\* img.save(buf, format="PNG"); buf.getvalue(), for a mode PNG writes
SavePNG(im) == [format |-> "PNG", mode |-> im.mode, size |-> im.size, px |-> im.px]

(***************************************************************************)
(* Geometry of sections 7, 8 and 10.                                       *)
(***************************************************************************)
\* max(1, (hi - lo) - 2 * padding)
RegionDim(lo, hi, padding) == Max(1, (hi - lo) - 2 * padding)

\* min of two positive fractions
MinFrac(f, g) == IF f[1] * g[2] <= g[1] * f[2] THEN f ELSE g

\* max of two positive fractions
MaxFrac(f, g) == IF f[1] * g[2] >= g[1] * f[2] THEN f ELSE g

\* Mutant of ScaleOf: the larger ratio is taken ("cover" instead of "contain").
ScaleOfCover(region_w, region_h, cw, ch, allow_upscale) ==
    LET scale == MaxFrac(<<region_w, cw>>, <<region_h, ch>>)
    IN  IF allow_upscale THEN scale ELSE MinFrac(<<1, 1>>, scale)

\* Mutant of ScaleOf: the scale is clamped to 1.0 whatever allow_upscale is.
ScaleOfClamped(region_w, region_h, cw, ch, allow_upscale) ==
    MinFrac(<<1, 1>>, MinFrac(<<region_w, cw>>, <<region_h, ch>>))

\* scale = min(scale_w, scale_h), then min(1.0, scale) unless allow_upscale
ScaleOf(region_w, region_h, cw, ch, allow_upscale) ==
    LET scale == MinFrac(<<region_w, cw>>, <<region_h, ch>>)
    IN  IF allow_upscale THEN scale ELSE MinFrac(<<1, 1>>, scale)

\* round(n / d) for n >= 0, d > 0: nearest integer, a tie to the even one
Round(n, d) ==
    LET q == n \div d
        r == n % d
    IN  IF 2 * r < d THEN q
        ELSE IF 2 * r > d THEN q + 1
        ELSE IF q % 2 = 0 THEN q ELSE q + 1

\* Mutant of NewDim: int() truncates, round is missing.
NewDimTrunc(c, scale) == Max(1, (c * scale[1]) \div scale[2])

\* max(1, int(round(c * scale)))
NewDim(c, scale) == Max(1, Round(c * scale[1], scale[2]))

\* Mutant of PasteX: right alignment subtracts the inner width, not new_w.
PasteXRegion(align, x1, x2, padding, region_w, new_w) ==
    IF align = "left" THEN x1 + padding
    ELSE IF align = "center" THEN x1 + padding + ((region_w - new_w) \div 2)
    ELSE x2 - padding - region_w

\* px of section 10
PasteX(align, x1, x2, padding, region_w, new_w) ==
    IF align = "left" THEN x1 + padding
    ELSE IF align = "center" THEN x1 + padding + ((region_w - new_w) \div 2)
    ELSE x2 - padding - new_w

\* Mutant of PasteY: centring rounds the half leftover up.
PasteYCeil(valign, y1, y2, padding, region_h, new_h) ==
    IF valign = "top" THEN y1 + padding
    ELSE IF valign = "middle" THEN y1 + padding + ((region_h - new_h + 1) \div 2)
    ELSE y2 - padding - new_h

\* py of section 10
PasteY(valign, y1, y2, padding, region_h, new_h) ==
    IF valign = "top" THEN y1 + padding
    ELSE IF valign = "middle" THEN y1 + padding + ((region_h - new_h) \div 2)
    ELSE y2 - padding - new_h

(***************************************************************************)
(* The call frame and the sections of the body.  A frame s holds what the  *)
(* body changes; each section is a function from frame to frame, given the *)
(* arguments a.                                                            *)
(***************************************************************************)
Frame(h) ==
    [pc |-> "check_type", loc |-> <<>>, heap |-> h, raised |-> "",
     returned |-> <<>>, stdout |-> <<>>, trace |-> <<>>]

Bind(l, name, v) ==
    [n \in (DOMAIN l) \cup {name} |-> IF n = name THEN v ELSE l[n]]

Raise(s, exc) == [s EXCEPT !.pc = "done", !.raised = exc]

Did(s, event) == [s EXCEPT !.trace = Append(@, event)]

\* A new image object holding im; its id is the next free one.
Alloc(s, name, im) ==
    [s EXCEPT !.heap = Append(@, im),
              !.loc = Bind(@, name, Obj(Len(s.heap) + 1))]

\* Mutant of ImageCopy: the name is bound to the same object, no copy made.
ImageAlias(s, name, v) == [s EXCEPT !.loc = Bind(@, name, v)]

\* name = v.copy()
ImageCopy(s, name, v) == Alloc(s, name, s.heap[v.id])

\* name = Image.open(path).convert("RGBA")
ImageOpenRGBA(s, name, path) == Alloc(s, name, Convert(fs[path], "RGBA"))

\* os.path.isfile(path)
IsFile(path) == path \in DOMAIN fs

\* Section 4: the type check of content_image.
DoCheckType(a, s) ==
    IF ~IsImage(a.content_image)
    THEN Raise(s, "TypeError")
    ELSE [s EXCEPT !.pc = "prepare_base"]

\* Section 5: img is a copy of the canvas object, or the decoded file.
DoPrepareBase(a, s) ==
    LET t == Did(s, "read_canvas")
    IN  IF IsImage(a.image_source)
        THEN [ImageCopy(t, "img", a.image_source) EXCEPT !.pc = "prepare_overlay"]
        ELSE IF IsFile(a.image_source.s)
        THEN [ImageOpenRGBA(t, "img", a.image_source.s) EXCEPT !.pc = "prepare_overlay"]
        ELSE Raise(t, "FileNotFoundError")

\* Mutant of DoPrepareOverlay: a path is opened without the isfile test.
DoPrepareOverlayNoTest(a, s) ==
    LET t == Did(s, "read_overlay")
    IN  IF a.image_overlay = None
        THEN [s EXCEPT !.pc = "region"]
        ELSE IF IsImage(a.image_overlay)
        THEN [ImageCopy(t, "img_overlay", a.image_overlay) EXCEPT !.pc = "region"]
        ELSE IF IsFile(a.image_overlay.s)
        THEN [ImageOpenRGBA(t, "img_overlay", a.image_overlay.s) EXCEPT !.pc = "region"]
        ELSE Raise(t, "FileNotFoundError")

\* Section 6: img_overlay is bound only when image_overlay is given.
DoPrepareOverlay(a, s) ==
    LET t == Did(s, "read_overlay")
    IN  IF a.image_overlay = None
        THEN [s EXCEPT !.pc = "region"]
        ELSE IF IsImage(a.image_overlay)
        THEN [ImageCopy(t, "img_overlay", a.image_overlay) EXCEPT !.pc = "region"]
        ELSE IF IsFile(a.image_overlay.s)
        THEN [ImageOpenRGBA(t, "img_overlay", a.image_overlay.s) EXCEPT !.pc = "region"]
        ELSE [t EXCEPT !.loc = Bind(@, "img_overlay", None), !.pc = "region"]

\* Mutant of RegionValid: an empty region passes (>= for >).
RegionValidLoose(x1, y1, x2, y2) == x2 >= x1 /\ y2 >= y1

\* x2 > x1 and y2 > y1
RegionValid(x1, y1, x2, y2) == x2 > x1 /\ y2 > y1

\* Section 7: the region and its padded inner size.
DoRegion(a, s) ==
    LET x1 == a.top_left[1]
        y1 == a.top_left[2]
        x2 == a.bottom_right[1]
        y2 == a.bottom_right[2]
        l1 == Bind(Bind(Bind(Bind(s.loc, "x1", x1), "y1", y1), "x2", x2), "y2", y2)
        t == Did([s EXCEPT !.loc = l1], "check_region")
    IN  IF ~RegionValid(x1, y1, x2, y2)
        THEN Raise(t, "ValueError: region")
        ELSE [t EXCEPT !.loc = Bind(Bind(@, "region_w", RegionDim(x1, x2, a.padding)),
                                    "region_h", RegionDim(y1, y2, a.padding)),
                       !.pc = "scale"]

\* Section 8: the content size, the scale and the placed size.
DoScale(a, s) ==
    LET size == s.heap[a.content_image.id].size
        cw == size[1]
        ch == size[2]
        t == Did([s EXCEPT !.loc = Bind(Bind(@, "cw", cw), "ch", ch)], "check_size")
        scale == ScaleOf(s.loc.region_w, s.loc.region_h, cw, ch, a.allow_upscale)
    IN  IF cw <= 0 \/ ch <= 0
        THEN Raise(t, "ValueError: content size")
        ELSE Did([t EXCEPT !.loc = Bind(Bind(Bind(@, "scale", scale),
                                                  "new_w", NewDim(cw, scale)),
                                             "new_h", NewDim(ch, scale)),
                           !.pc = "resize"],
                 "scale")

\* Section 9: resized is a new image object.
DoResize(a, s) ==
    [Alloc(Did(s, "resize"), "resized",
           ImageResize(s.heap[a.content_image.id], s.loc.new_w, s.loc.new_h))
     EXCEPT !.pc = "position"]

\* Section 10: the paste origin.
DoPosition(a, s) ==
    LET l == s.loc
    IN  [s EXCEPT !.loc = Bind(Bind(@, "px", PasteX(a.align, l.x1, l.x2, a.padding,
                                                     l.region_w, l.new_w)),
                               "py", PasteY(a.valign, l.y1, l.y2, a.padding,
                                            l.region_h, l.new_h)),
                  !.pc = "paste"]

\* Mutant of UseMask: keep_alpha is ignored.
UseMaskAlways(keep_alpha, resized) == "A" \in GetBands(resized)

\* keep_alpha and ("A" in resized.getbands())
UseMask(keep_alpha, resized) == keep_alpha /\ "A" \in GetBands(resized)

\* Section 11: the content paste onto img.
DoPaste(a, s) ==
    LET l == s.loc
        resized == s.heap[l.resized.id]
        masked == UseMask(a.keep_alpha, resized)
    IN  [Did(s, IF masked THEN "paste_content_mask" ELSE "paste_content")
         EXCEPT !.heap[l.img.id] = ImagePaste(@, resized, l.px, l.py, masked),
                !.pc = "overlay"]

\* Mutant of DoOverlay: the overlay is pasted at the content's origin.
DoOverlayAtContent(a, s) ==
    LET l == s.loc
    IN  IF a.image_overlay # None /\ l.img_overlay # None
        THEN LET ov == s.heap[l.img_overlay.id]
             IN  IF "A" \in GetBands(ov)
                 THEN [Did(s, "paste_overlay")
                       EXCEPT !.heap[l.img.id] = ImagePaste(@, ov, l.px, l.py, TRUE),
                              !.pc = "output"]
                 ELSE Raise(s, "ValueError: mask")
        ELSE IF a.image_overlay # None /\ l.img_overlay = None
        THEN [Did(s, "warn")
              EXCEPT !.stdout = Append(@, "Warning: overlay image is not exist."),
                     !.pc = "output"]
        ELSE [s EXCEPT !.pc = "output"]

\* Section 12: the overlay paste, or the warning.  A mask without alpha band
\* is refused by the library.
DoOverlay(a, s) ==
    LET l == s.loc
    IN  IF a.image_overlay # None /\ l.img_overlay # None
        THEN LET ov == s.heap[l.img_overlay.id]
             IN  IF "A" \in GetBands(ov)
                 THEN [Did(s, "paste_overlay")
                       EXCEPT !.heap[l.img.id] = ImagePaste(@, ov, 0, 0, TRUE),
                              !.pc = "output"]
                 ELSE Raise(s, "ValueError: mask")
        ELSE IF a.image_overlay # None /\ l.img_overlay = None
        THEN [Did(s, "warn")
              EXCEPT !.stdout = Append(@, "Warning: overlay image is not exist."),
                     !.pc = "output"]
        ELSE [s EXCEPT !.pc = "output"]

\* Section 13: the PNG bytes of img; the encoder refuses a mode it cannot
\* write ("cannot write mode CMYK as PNG").
DoOutput(a, s) ==
    LET t == Did(s, "encode")
    IN  IF CanSavePNG(s.heap[s.loc.img.id])
        THEN [t EXCEPT !.returned = <<SavePNG(s.heap[s.loc.img.id])>>,
                       !.pc = "done"]
        ELSE Raise(t, "OSError")

\* The section at s.pc.
Step(a, s) ==
    CASE s.pc = "check_type" -> DoCheckType(a, s)
      [] s.pc = "prepare_base" -> DoPrepareBase(a, s)
      [] s.pc = "prepare_overlay" -> DoPrepareOverlay(a, s)
      [] s.pc = "region" -> DoRegion(a, s)
      [] s.pc = "scale" -> DoScale(a, s)
      [] s.pc = "resize" -> DoResize(a, s)
      [] s.pc = "position" -> DoPosition(a, s)
      [] s.pc = "paste" -> DoPaste(a, s)
      [] s.pc = "overlay" -> DoOverlay(a, s)
      [] s.pc = "output" -> DoOutput(a, s)

\* The whole call from frame s on.
RECURSIVE Run(_, _)
Run(a, s) == IF s.pc = "done" THEN s ELSE Run(a, Step(a, s))

(***************************************************************************)
(* The call as a state machine: one action per section.                    *)
(***************************************************************************)
Cur ==
    [pc |-> pc, loc |-> loc, heap |-> heap, raised |-> raised,
     returned |-> returned, stdout |-> stdout, trace |-> trace]

Apply(s) ==
    /\ pc' = s.pc
    /\ loc' = s.loc
    /\ heap' = s.heap
    /\ raised' = s.raised
    /\ returned' = s.returned
    /\ stdout' = s.stdout
    /\ trace' = s.trace
    /\ UNCHANGED <<args, fs>>

CheckType == pc = "check_type" /\ Apply(DoCheckType(args, Cur))
PrepareBase == pc = "prepare_base" /\ Apply(DoPrepareBase(args, Cur))
PrepareOverlay == pc = "prepare_overlay" /\ Apply(DoPrepareOverlay(args, Cur))
Region == pc = "region" /\ Apply(DoRegion(args, Cur))
Scale == pc = "scale" /\ Apply(DoScale(args, Cur))
Resize == pc = "resize" /\ Apply(DoResize(args, Cur))
Position == pc = "position" /\ Apply(DoPosition(args, Cur))
Paste == pc = "paste" /\ Apply(DoPaste(args, Cur))
Overlay == pc = "overlay" /\ Apply(DoOverlay(args, Cur))
Output == pc = "output" /\ Apply(DoOutput(args, Cur))

Next ==
    \/ CheckType
    \/ PrepareBase
    \/ PrepareOverlay
    \/ Region
    \/ Scale
    \/ Resize
    \/ Position
    \/ Paste
    \/ Overlay
    \/ Output

(***************************************************************************)
(* The calls explored.  A source is what the caller passes for an image    *)
(* parameter: a decoded image, a path, or nothing.                         *)
(***************************************************************************)
CanvasW == 3
CanvasH == 2
MaxContent == 2
MaxRegion == 4
MaxGeomContent == 4
MaxPad == 2

Decoded(im) == [kind |-> "image", im |-> im]
Path(s) == [kind |-> "path", s |-> s]
Nothing == [kind |-> "none"]

\* The files on disk: a canvas without alpha band and an overlay with one.
Files ==
    [p \in {"canvas.png", "overlay.png"} |->
        IF p = "canvas.png" THEN MakeImage("RGB", CanvasW, CanvasH, 0, "opaque")
        ELSE MakeImage("RGBA", CanvasW, CanvasH, 200, "checker")]

\* The argument value for a source, given the caller's objects so far.
ArgOf(src, h) ==
    IF src.kind = "image" THEN Obj(Len(h) + 1)
    ELSE IF src.kind = "path" THEN Str(src.s)
    ELSE None

\* The caller's objects with the one of src added.
Held(src, h) == IF src.kind = "image" THEN Append(h, src.im) ELSE h

\* The state at entry of paste_image_auto.
Entry(canvas, content, overlay, tl, br, al, val, pad, up, keep) ==
    LET h1 == Held(canvas, <<>>)
        h2 == Held(content, h1)
        h3 == Held(overlay, h2)
        f == Frame(h3)
    IN  /\ args = [image_source |-> ArgOf(canvas, <<>>),
                   top_left |-> tl,
                   bottom_right |-> br,
                   content_image |-> ArgOf(content, h1),
                   align |-> al,
                   valign |-> val,
                   padding |-> pad,
                   allow_upscale |-> up,
                   keep_alpha |-> keep,
                   image_overlay |-> ArgOf(overlay, h2)]
        /\ fs = Files
        /\ pc = f.pc
        /\ loc = f.loc
        /\ heap = f.heap
        /\ raised = f.raised
        /\ returned = f.returned
        /\ stdout = f.stdout
        /\ trace = f.trace

CanvasImages ==
    {MakeImage(m, CanvasW, CanvasH, 0, "opaque") : m \in {"RGB", "RGBA", "CMYK"}}

ContentImages(lo, hi, modes, patterns) ==
    {MakeImage(m, w, h, 100, p) :
        m \in modes, w \in lo .. hi, h \in lo .. hi, p \in patterns}

\* Calls that vary the pixels: sources of every kind, few geometries.
Init ==
    \E canvas \in {Decoded(im) : im \in CanvasImages}
                  \cup {Path("canvas.png"), Path("nocanvas.png")},
       content \in {Decoded(im) :
                       im \in ContentImages(0, MaxContent, {"RGB"}, {"opaque"})
                              \cup ContentImages(0, MaxContent, {"RGBA"},
                                                 {"opaque", "clear", "half", "checker"})}
                   \cup {Path("content.png")},
       overlay \in {Nothing, Path("overlay.png"), Path("missing.png"),
                    Decoded(MakeImage("RGBA", CanvasW, CanvasH, 200, "half")),
                    Decoded(MakeImage("RGB", CanvasW, CanvasH, 200, "opaque"))},
       tl \in {<<0, 0>>, <<1, 0>>},
       br \in {<<1, 0>>, <<CanvasW + 1, CanvasH>>},
       al \in {<<"left", "top">>, <<"center", "middle">>, <<"right", "bottom">>},
       pad \in {0, 1},
       up \in BOOLEAN, keep \in BOOLEAN :
        Entry(canvas, content, overlay, tl, br, al[1], al[2], pad, up, keep)

Spec == Init /\ [][Next]_vars

\* Calls that vary the geometry: every region, padding, content size,
\* alignment and upscale policy within the bounds, on fixed opaque pixels.
InitGeom ==
    \E tl \in {<<0, 0>>, <<1, 2>>},
       rw \in 0 .. MaxRegion, rh \in 0 .. MaxRegion,
       pad \in 0 .. MaxPad,
       cw \in 1 .. MaxGeomContent, ch \in 1 .. MaxGeomContent,
       al \in {"left", "center", "right"},
       val \in {"top", "middle", "bottom"},
       up \in BOOLEAN :
        Entry(Decoded(MakeImage("RGB", CanvasW, CanvasH, 0, "opaque")),
              Decoded(MakeImage("RGB", cw, ch, 100, "opaque")),
              Nothing, tl, <<tl[1] + rw, tl[2] + rh>>, al, val, pad, up, TRUE)

SpecGeom == InitGeom /\ [][Next]_vars

(***************************************************************************)
(* Properties.                                                             *)
(***************************************************************************)
Has(name) == name \in DOMAIN loc

InTrace(event) == \E i \in DOMAIN trace : trace[i] = event

x1 == args.top_left[1]
y1 == args.top_left[2]
x2 == args.bottom_right[1]
y2 == args.bottom_right[2]

\* The inner size of the region as the contract states it.
InnerW == IF (x2 - x1) - 2 * args.padding >= 1 THEN (x2 - x1) - 2 * args.padding ELSE 1
InnerH == IF (y2 - y1) - 2 * args.padding >= 1 THEN (y2 - y1) - 2 * args.padding ELSE 1

\* C1 Contain bound: once the placed size is computed, new_w <= region_w and
\* new_h <= region_h, where region_w and region_h are the padded inner sizes
\* floored at 1, for both upscale policies.
C1_ContainBound ==
    Has("new_w") /\ Has("new_h") =>
        /\ loc.region_w = InnerW
        /\ loc.region_h = InnerH
        /\ loc.new_w <= InnerW
        /\ loc.new_h <= InnerH

\* A padded region whose inner height the downscaled content reaches while
\* its width stays below the inner width.
C1_Witness ==
    /\ Has("new_w") /\ Has("new_h")
    /\ args.padding > 0
    /\ loc.new_h = InnerH
    /\ loc.new_h < loc.ch
    /\ loc.new_w < InnerW

\* C2 Maximal fit: the placed size touches the inner region on at least one
\* axis, except when upscaling is off and the content already fits the inner
\* region; then the placed size is the content size.
C2_MaximalFit ==
    Has("new_w") /\ Has("new_h") =>
        IF ~args.allow_upscale /\ loc.cw <= InnerW /\ loc.ch <= InnerH
        THEN loc.new_w = loc.cw /\ loc.new_h = loc.ch
        ELSE loc.new_w = InnerW \/ loc.new_h = InnerH

\* Content smaller than the inner region on both axes, upscaled until its
\* width touches.
C2_Witness ==
    /\ Has("new_w") /\ Has("new_h")
    /\ args.allow_upscale
    /\ loc.cw < InnerW
    /\ loc.ch < InnerH
    /\ loc.new_w = InnerW
    /\ loc.new_h < InnerH

\* C3 as stated: the two ratios placed/content are equal and both equal the
\* applied scale, for the integer sizes new_w and new_h.
C3_AspectExact ==
    Has("new_w") /\ Has("new_h") =>
        /\ loc.new_w * loc.ch = loc.new_h * loc.cw
        /\ loc.new_w * loc.scale[2] = loc.cw * loc.scale[1]
        /\ loc.new_h * loc.scale[2] = loc.ch * loc.scale[1]

\* new is c * scale rounded to the nearest integer, or 1 when that is below 1/2
Nearest(new, c, scale) ==
    \/ /\ 2 * (new * scale[2] - c * scale[1]) <= scale[2]
       /\ 2 * (c * scale[1] - new * scale[2]) <= scale[2]
    \/ new = 1 /\ 2 * c * scale[1] < scale[2]

\* C3 Aspect preservation, amended: each placed dimension is the content
\* dimension times the applied scale, rounded to the nearest integer and
\* floored at 1; the ratios equal the scale exactly when both products are
\* integers.
C3_AspectRounded ==
    Has("new_w") /\ Has("new_h") =>
        /\ Nearest(loc.new_w, loc.cw, loc.scale)
        /\ Nearest(loc.new_h, loc.ch, loc.scale)
        /\ (loc.cw * loc.scale[1]) % loc.scale[2] = 0
              /\ (loc.ch * loc.scale[1]) % loc.scale[2] = 0
            => /\ loc.new_w * loc.scale[2] = loc.cw * loc.scale[1]
               /\ loc.new_h * loc.scale[2] = loc.ch * loc.scale[1]
               /\ loc.new_w * loc.ch = loc.new_h * loc.cw

\* A placed size whose ratios differ because the height was rounded.
C3_Witness ==
    /\ Has("new_w") /\ Has("new_h")
    /\ loc.new_w * loc.scale[2] = loc.cw * loc.scale[1]
    /\ loc.new_h * loc.scale[2] # loc.ch * loc.scale[1]
    /\ loc.new_h > 1

\* C4 Alignment boundary: with padding 0, left/top puts the paste origin on
\* top_left and right/bottom puts the placed bottom-right corner on
\* bottom_right.
C4_AlignmentBoundary ==
    Has("px") /\ Has("py") /\ args.padding = 0 =>
        /\ args.align = "left" /\ args.valign = "top"
            => <<loc.px, loc.py>> = args.top_left
        /\ args.align = "right" /\ args.valign = "bottom"
            => <<loc.px + loc.new_w, loc.py + loc.new_h>> = args.bottom_right

\* Right/bottom placement, no padding, of a content that fills neither axis.
C4_Witness ==
    /\ Has("px") /\ Has("py")
    /\ args.padding = 0
    /\ args.align = "right" /\ args.valign = "bottom"
    /\ args.top_left = <<1, 2>>
    /\ loc.new_w < loc.region_w
    /\ loc.new_h < loc.region_h

\* C10 Placement stays inside the padded region: when the padding leaves an
\* inner pixel on each axis, the placed rectangle lies within
\* [x1+padding, x2-padding] x [y1+padding, y2-padding]; the leftovers are not
\* negative, and centring puts the smaller margin first, the margins
\* differing by at most 1.
C10_InsidePadded ==
    /\ Has("px") /\ Has("py")
    /\ args.padding >= 0
    /\ (x2 - x1) - 2 * args.padding >= 1
    /\ (y2 - y1) - 2 * args.padding >= 1
    => /\ x1 + args.padding <= loc.px
       /\ loc.px + loc.new_w <= x2 - args.padding
       /\ y1 + args.padding <= loc.py
       /\ loc.py + loc.new_h <= y2 - args.padding
       /\ loc.region_w - loc.new_w >= 0
       /\ loc.region_h - loc.new_h >= 0
       /\ args.align = "center" =>
            LET before == loc.px - (x1 + args.padding)
                after == (x2 - args.padding) - (loc.px + loc.new_w)
            IN  before <= after /\ after - before <= 1
       /\ args.valign = "middle" =>
            LET before == loc.py - (y1 + args.padding)
                after == (y2 - args.padding) - (loc.py + loc.new_h)
            IN  before <= after /\ after - before <= 1

\* Centred on both axes inside a padded region, with an odd leftover on the
\* vertical axis.
C10_Witness ==
    /\ Has("px") /\ Has("py")
    /\ args.padding > 0
    /\ (x2 - x1) - 2 * args.padding >= 1
    /\ (y2 - y1) - 2 * args.padding >= 1
    /\ args.align = "center" /\ args.valign = "middle"
    /\ (loc.region_h - loc.new_h) % 2 = 1

\* The canvas as section 5 loads it, before any paste.
BaseCanvas ==
    IF IsImage(args.image_source) THEN heap[args.image_source.id]
    ELSE Convert(fs[args.image_source.s], "RGBA")

\* The placed rectangle new_w x new_h at (px, py).
InPlaced(q) ==
    /\ loc.px <= q[1] /\ q[1] < loc.px + loc.new_w
    /\ loc.py <= q[2] /\ q[2] < loc.py + loc.new_h

\* The pixel of the resized content that lands on canvas pixel q.
ContentAt(q) == heap[loc.resized.id].px[<<q[1] - loc.px, q[2] - loc.py>>]

\* Canvas pixel p shows source pixel s: its colour, and its alpha where the
\* canvas has an alpha band; on a CMYK canvas, the inverted colour with K = 0.
Shows(mode, p, s) ==
    CASE mode = "RGBA" -> p.c = s.c /\ p.a = s.a
      [] mode = "RGB" -> p.c = s.c /\ p.a = 255
      [] mode = "CMYK" -> p.c + s.c = 255 /\ p.a = 0

\* C5 Non-mutation: no step of the call, on any path, changes the canvas
\* object the caller passed; img is another object.
C5_NonMutation ==
    [][IsImage(args.image_source) =>
          /\ heap'[args.image_source.id] = heap[args.image_source.id]
          /\ "img" \in DOMAIN loc' => loc'.img.id # args.image_source.id]_vars

\* A returned call on a decoded canvas whose copy the pastes changed.
C5_Witness ==
    /\ IsImage(args.image_source)
    /\ returned # <<>>
    /\ InTrace("paste_overlay")
    /\ heap[loc.img.id] # heap[args.image_source.id]

OverlayMissing == args.image_overlay.tag = "str" /\ ~IsFile(args.image_overlay.s)

\* The caller's objects: the heap at entry.
CallerHeap ==
    SubSeq(heap, 1, Cardinality({k \in {"image_source", "content_image", "image_overlay"} :
                                    IsImage(args[k])}))

\* The finished call on the same arguments with image_overlay=None.
WithoutOverlay == Run([args EXCEPT !.image_overlay = None], Frame(CallerHeap))

Warning == "Warning: overlay image is not exist."

\* C6 as stated: a finished call whose overlay path names no file has the
\* outcome of the call without overlay, pasted no overlay, and printed the
\* warning.
C6_MissingOverlayWarns ==
    pc = "done" /\ OverlayMissing =>
        /\ raised = WithoutOverlay.raised
        /\ returned = WithoutOverlay.returned
        /\ ~InTrace("paste_overlay")
        /\ stdout = <<Warning>>

ContentPasted == InTrace("paste_content") \/ InTrace("paste_content_mask")

\* C6 Missing overlay degrades gracefully, amended: same outcome as without
\* overlay and no overlay paste; the warning is printed exactly when the call
\* got past the content paste: always when an image is returned, never when
\* the call raised before section 12, and also when only the encoding failed.
C6_MissingOverlay ==
    pc = "done" /\ OverlayMissing =>
        /\ raised = WithoutOverlay.raised
        /\ returned = WithoutOverlay.returned
        /\ WithoutOverlay.stdout = <<>>
        /\ ~InTrace("paste_overlay")
        /\ stdout = IF ContentPasted THEN <<Warning>> ELSE <<>>
        /\ returned # <<>> => ContentPasted
        /\ raised \in {"TypeError", "FileNotFoundError", "ValueError: region",
                       "ValueError: content size"} => ~ContentPasted
        /\ raised = "OSError" => ContentPasted

\* A call with a missing overlay path that returned its image and warned.
C6_Witness ==
    /\ pc = "done" /\ OverlayMissing
    /\ returned # <<>>
    /\ InTrace("paste_content_mask")
    /\ stdout = <<Warning>>

Degenerate == x2 <= x1 \/ y2 <= y1

\* C7 Validation order and no partial work: the type check fails before any
\* source is read; a degenerate region fails the region check before the
\* content size is checked; a content size <= 0 fails the size check before a
\* scale is computed; after each of the three failures nothing was resized or
\* pasted, the canvas copy is as loaded, and nothing is returned.
C7_ValidationOrder ==
    /\ ~IsImage(args.content_image) /\ pc # "check_type"
        => raised = "TypeError" /\ pc = "done" /\ trace = <<>>
    /\ raised = "TypeError" => ~IsImage(args.content_image)
    /\ InTrace("check_region") /\ Degenerate
        => raised = "ValueError: region" /\ pc = "done" /\ ~InTrace("check_size")
    /\ raised = "ValueError: region" => Degenerate
    /\ InTrace("check_size") /\ (\E i \in 1 .. 2 : heap[args.content_image.id].size[i] <= 0)
        => raised = "ValueError: content size" /\ pc = "done" /\ ~InTrace("scale")
    /\ raised = "ValueError: content size"
        => InTrace("check_region") /\ ~Degenerate
    /\ raised \in {"TypeError", "ValueError: region", "ValueError: content size"}
        => /\ \A e \in {"scale", "resize", "paste_content", "paste_content_mask",
                        "paste_overlay", "encode"} : ~InTrace(e)
           /\ Has("img") => heap[loc.img.id] = BaseCanvas
           /\ returned = <<>>

\* The size check failed on a call that had already copied canvas and overlay.
C7_Witness ==
    /\ raised = "ValueError: content size"
    /\ Has("img") /\ Has("img_overlay")
    /\ loc.img_overlay # None
    /\ heap[args.content_image.id].size[1] > 0

OverlayResolved == Has("img_overlay") /\ loc.img_overlay # None

\* event e1 occurs in trace, and before every e2
Precedes(e1, e2) ==
    \A j \in DOMAIN trace : trace[j] = e2 => \E i \in 1 .. (j - 1) : trace[i] = e1

\* C8 Overlay on top: the overlay paste comes after the content paste and
\* before the encoding, and a returned image shows the overlay's pixel
\* wherever a fully opaque overlay pixel, placed from the origin, covers it.
C8_OverlayOnTop ==
    /\ InTrace("paste_overlay") =>
          /\ \E i \in DOMAIN trace :
                /\ trace[i] \in {"paste_content", "paste_content_mask"}
                /\ \A j \in DOMAIN trace : trace[j] = "paste_overlay" => i < j
          /\ Precedes("paste_overlay", "encode")
    /\ returned # <<>> /\ OverlayResolved =>
          /\ InTrace("paste_overlay")
          /\ LET ov == heap[loc.img_overlay.id]
                 out == returned[1]
             IN  \A q \in DOMAIN out.px :
                    q \in DOMAIN ov.px /\ ov.px[q].a = 255
                        => Shows(out.mode, out.px[q], ov.px[q])

\* A returned image in which an opaque overlay pixel covers a pixel that the
\* content paste had overwritten.
C8_Witness ==
    /\ returned # <<>> /\ OverlayResolved
    /\ InTrace("paste_content")
    /\ \E q \in DOMAIN returned[1].px :
          /\ InPlaced(q)
          /\ q \in DOMAIN heap[loc.img_overlay.id].px
          /\ heap[loc.img_overlay.id].px[q].a = 255
          /\ heap[loc.img_overlay.id].px[q].c # ContentAt(q).c

\* C9 Alpha gating of the content paste: the mask is used iff keep_alpha and
\* the resized content has an alpha band; with the mask a canvas pixel under a
\* fully transparent content pixel keeps the base value, without it every
\* canvas pixel in the placed rectangle shows the content pixel; outside the
\* rectangle the canvas is unchanged.
C9_AlphaGating ==
    pc = "overlay" =>
        LET im == heap[loc.img.id]
            masked == InTrace("paste_content_mask")
        IN  /\ masked # InTrace("paste_content")
            /\ masked <=> (args.keep_alpha /\ heap[loc.resized.id].mode = "RGBA")
            /\ heap[loc.resized.id].size = <<loc.new_w, loc.new_h>>
            /\ \A q \in DOMAIN im.px :
                  IF InPlaced(q)
                  THEN IF masked
                       THEN ContentAt(q).a = 0 => im.px[q] = BaseCanvas.px[q]
                       ELSE Shows(im.mode, im.px[q], ContentAt(q))
                  ELSE im.px[q] = BaseCanvas.px[q]

\* A masked paste that covers part of the canvas with both a transparent and
\* an opaque content pixel.
C9_Witness ==
    /\ pc = "overlay"
    /\ InTrace("paste_content_mask")
    /\ \E q \in DOMAIN heap[loc.img.id].px : ~InPlaced(q)
    /\ \E q \in DOMAIN heap[loc.img.id].px :
          InPlaced(q) /\ ContentAt(q).a = 0
    /\ \E q \in DOMAIN heap[loc.img.id].px :
          InPlaced(q) /\ ContentAt(q).a = 255
                      /\ heap[loc.img.id].px[q] # BaseCanvas.px[q]

====
